---- MODULE Spec2Model ----
(***************************************************************************)
(* Model of the multi-persona session of src/agent/triage.py: the handoff  *)
(* between personas (BaseAgent._transfer_to_agent, BaseAgent.on_enter with *)
(* _truncate_chat_ctx and the id-filtered merge) and the background image  *)
(* ingestion units (create_image_handler.fn, _handle_image).               *)
(*                                                                         *)
(* Scheduling is asyncio's: one thread, a task runs until it awaits.  An   *)
(* action of this module is the code between two suspension points.        *)
(***************************************************************************)
EXTENDS Integers, Sequences, FiniteSets, TLC

\* ------------------------------------------------------------ bounds
\* longest history handed to _truncate_chat_ctx in TruncSpec
MaxLen == 4
\* largest keep_last_n_messages tried in TruncSpec (0..MaxKeep)
MaxKeep == 3
\* number of chat items one session may create (ids 1..MaxItems)
MaxItems == 4
\* chunks delivered by one byte stream
NumChunks == 2

\* ------------------------------------------------------------ program constants
\* default of keep_last_n_messages
DefaultKeepLastN == 6

\* ------------------------------------------------------------ chat items
FunctionTypes == {"function_call", "function_call_output"}

\* the kinds of item a history holds: the three message roles and the two
\* function item types
Kinds == {"system", "user", "assistant"} \cup FunctionTypes

\* a chat item of the given kind; function items carry no role
ChatItem(id, kind, content) ==
  [id |-> id,
   type |-> IF kind \in FunctionTypes THEN kind ELSE "message",
   role |-> IF kind \in FunctionTypes THEN "None" ELSE kind,
   content |-> content]

IsFunctionItem(item) == item.type \in FunctionTypes

IsSystemMessage(item) == item.type = "message" /\ item.role = "system"

\* ------------------------------------------------------------ _truncate_chat_ctx
\* _valid_item with the second test written against "function_call" alone
_valid_item_call_only(item, keep_system_message, keep_function_call) ==
  IF ~keep_system_message /\ item.type = "message" /\ item.role = "system"
    THEN FALSE
  ELSE IF ~keep_function_call /\ item.type = "function_call"
    THEN FALSE
  ELSE TRUE

\* _valid_item, with the flags of the enclosing call
_valid_item(item, keep_system_message, keep_function_call) ==
  IF ~keep_system_message /\ item.type = "message" /\ item.role = "system"
    THEN FALSE
  ELSE IF ~keep_function_call /\ item.type \in FunctionTypes
    THEN FALSE
  ELSE TRUE

\* the loop's exit test, evaluated after the item was (or was not) appended
ScanBreak(new_items, keep_last_n_messages) ==
  Len(new_items) >= keep_last_n_messages

\* for item in reversed(items): i is the index of the item visited next
RECURSIVE ScanReversed(_, _, _, _, _, _)
ScanReversed(items, i, new_items, n, ks, kf) ==
  IF i = 0 THEN new_items
  ELSE LET appended == IF _valid_item(items[i], ks, kf)
                         THEN Append(new_items, items[i])
                         ELSE new_items
       IN IF ScanBreak(appended, n)
            THEN appended
            ELSE ScanReversed(items, i - 1, appended, n, ks, kf)

\* new_items[::-1]
Reversed(s) == [i \in 1..Len(s) |-> s[Len(s) + 1 - i]]

\* `if` in place of `while`: one leading function item is popped
PopOneFunctionItem(new_items) ==
  IF new_items /= <<>> /\ IsFunctionItem(Head(new_items))
    THEN Tail(new_items)
    ELSE new_items

\* while new_items and new_items[0].type in [...]: new_items.pop(0)
RECURSIVE PopLeadingFunctionItems(_)
PopLeadingFunctionItems(new_items) ==
  IF new_items /= <<>> /\ IsFunctionItem(Head(new_items))
    THEN PopLeadingFunctionItems(Tail(new_items))
    ELSE new_items

_truncate_chat_ctx(items, keep_last_n_messages, keep_system_message, keep_function_call) ==
  PopLeadingFunctionItems(
    Reversed(ScanReversed(items, Len(items), <<>>, keep_last_n_messages,
                          keep_system_message, keep_function_call)))

\* ------------------------------------------------------------ personas
\* the keys of userdata.personas
personas == {"triage", "support", "billing"}

\* a name that is no key of userdata.personas
UnregisteredNames == {"pharmacy"}

\* self.__class__.__name__ of the agent registered under a name
AgentName(p) ==
  CASE p = "triage" -> "TriageAgent"
    [] p = "support" -> "SupportAgent"
    [] p = "billing" -> "BillingAgent"

\* the three transfer tools defined on BaseAgent, so that every class has all
ToolTableInherited(p) ==
  [t \in {"transfer_to_triage", "transfer_to_support", "transfer_to_billing"} |->
     CASE t = "transfer_to_triage" -> "triage"
       [] t = "transfer_to_support" -> "support"
       [] t = "transfer_to_billing" -> "billing"]

\* the @function_tool methods of each agent class and the name each passes
\* to _transfer_to_agent
ToolTable(p) ==
  CASE p = "triage" ->
         [t \in {"transfer_to_support", "transfer_to_billing"} |->
            IF t = "transfer_to_support" THEN "support" ELSE "billing"]
    [] p = "support" ->
         [t \in {"transfer_to_triage", "transfer_to_billing"} |->
            IF t = "transfer_to_triage" THEN "triage" ELSE "billing"]
    [] p = "billing" ->
         [t \in {"transfer_to_triage", "transfer_to_support"} |->
            IF t = "transfer_to_triage" THEN "triage" ELSE "support"]

ToolNames == {"transfer_to_triage", "transfer_to_support", "transfer_to_billing"}

\* BillingAgent.transfer_to_support awaits generate_reply() before the transfer
ToolAwaitsReply(p, tool) == p = "billing" /\ tool = "transfer_to_support"

\* UserData.summarize
summarize == "Medical office triage system with video analysis capabilities"

\* ------------------------------------------------------------ content
\* a text part; the text is kept as the sequence of its pieces
TextContent(pieces) == <<[type |-> "text", text |-> pieces, image |-> <<>>]>>

\* base64.b64encode: three bytes become four sextets; 64 stands for '='
Pad == 64

RECURSIVE b64encode(_)
b64encode(bytes) ==
  IF Len(bytes) = 0 THEN <<>>
  ELSE IF Len(bytes) = 1 THEN
    <<bytes[1] \div 4, (bytes[1] % 4) * 16, Pad, Pad>>
  ELSE IF Len(bytes) = 2 THEN
    <<bytes[1] \div 4, (bytes[1] % 4) * 16 + bytes[2] \div 16,
      (bytes[2] % 16) * 4, Pad>>
  ELSE
    <<bytes[1] \div 4, (bytes[1] % 4) * 16 + bytes[2] \div 16,
      (bytes[2] % 16) * 4 + bytes[3] \div 64, bytes[3] % 64>>
      \o b64encode(SubSeq(bytes, 4, Len(bytes)))

\* ImageContent(image=f"data:image/png;base64,{...}")
ImageContent(image_bytes) ==
  <<[type |-> "image", text |-> <<"data:image/png;base64,">>,
     image |-> b64encode(image_bytes)]>>

\* ------------------------------------------------------------ byte streams
Streams == {1, 2}

\* the c-th chunk the transport delivers on stream s (one byte each)
Chunk(s, c) == <<16 * s + c>>

\* list.pop() in place of list.remove(x): the last element goes
RemoveLast(list, x) ==
  IF list = <<>> THEN <<>> ELSE SubSeq(list, 1, Len(list) - 1)

\* list.remove(x): the first occurrence goes
RECURSIVE Remove(_, _)
Remove(list, x) ==
  IF list = <<>> THEN <<>>
  ELSE IF Head(list) = x THEN Tail(list)
  ELSE <<Head(list)>> \o Remove(Tail(list), x)

\* ------------------------------------------------------------ state
VARIABLES
  pc,                \* position of the main flow (entrypoint, on_enter, tools)
  _current_session,  \* the module global: "None" or "session"
  current_agent,     \* session.current_agent: "None" or a persona
  prev_agent,        \* userdata.prev_agent: "None" or a persona
  next_agent,        \* the agent a transfer tool returned, not yet activated
  result,            \* outcome of the last tool request or transfer call
  chat_ctx,          \* persona -> its chat_ctx.items
  attributes,        \* the local participant's "agent" attribute
  nextId,            \* the next fresh item id
  greeted,           \* persona -> number of greetings on_enter asked for
  status,            \* stream -> position of its _handle_image task
  image_bytes,       \* stream -> bytes read so far
  target,            \* stream -> the agent whose chat_ctx got its image
  _image_tasks,      \* the module global list of pending tasks
  callbacks_run,     \* the tasks whose done callback has run
  remove_error,      \* a done callback's list.remove raised ValueError
  arg_items,             \* _truncate_chat_ctx under test: its argument
  arg_keep_last_n,
  arg_keep_system,
  arg_keep_function,
  ret_items,         \* and its return value
  tpc                \* "idle", "call" or "return"

sessionVars == <<pc, _current_session, current_agent, prev_agent, next_agent,
                 result, chat_ctx, attributes, nextId, greeted>>
streamVars == <<status, image_bytes, target, _image_tasks, callbacks_run,
                remove_error>>
truncVars == <<arg_items, arg_keep_last_n, arg_keep_system,
               arg_keep_function, ret_items, tpc>>
vars == <<sessionVars, streamVars, truncVars>>

\* the state when entrypoint has connected (line 208) and nothing else ran
SessionInit ==
  /\ pc = "entrypoint"
  /\ _current_session = "None"
  /\ current_agent = "None"
  /\ prev_agent = "None"
  /\ next_agent = "None"
  /\ result = "None"
  /\ chat_ctx = [p \in personas |-> <<>>]
  /\ attributes = "None"
  /\ nextId = 1
  /\ greeted = [p \in personas |-> 0]
  /\ status = [s \in Streams |-> "unopened"]
  /\ image_bytes = [s \in Streams |-> <<>>]
  /\ target = [s \in Streams |-> "None"]
  /\ _image_tasks = <<>>
  /\ callbacks_run = {}
  /\ remove_error = FALSE

Init ==
  /\ SessionInit
  /\ arg_items = <<>>
  /\ arg_keep_last_n = DefaultKeepLastN
  /\ arg_keep_system = FALSE
  /\ arg_keep_function = FALSE
  /\ ret_items = <<>>
  /\ tpc = "idle"

\* ------------------------------------------------------------ entrypoint
\* lines 211-234 run without an await: the byte stream handler is registered,
\* the agents are put into userdata.personas, the session is built and stored
\* in the global; the event loop runs again at `await session.start`
entrypoint ==
  /\ pc = "entrypoint"
  /\ pc' = "start"
  /\ _current_session' = "session"
  /\ UNCHANGED <<current_agent, prev_agent, next_agent, result, chat_ctx,
                 attributes, nextId, greeted, streamVars,
                 truncVars>>

\* session.start(agent=triage_agent): triage becomes the current agent and
\* its on_enter is scheduled
session_start ==
  /\ pc = "start"
  /\ pc' = "on_enter"
  /\ current_agent' = "triage"
  /\ UNCHANGED <<_current_session, prev_agent, next_agent, result, chat_ctx,
                 attributes, nextId, greeted, streamVars,
                 truncVars>>

\* ------------------------------------------------------------ BaseAgent.on_enter
\* the attribute written on a handoff only, not on the first entry
EnterAttributesOnHandoff ==
  IF prev_agent = "None" THEN attributes ELSE AgentName(current_agent)

\* lines 94-97: userdata.ctx and its room are set (line 213), so the
\* attribute is written with the class name of the entering agent
EnterAttributes == AgentName(current_agent)

\* lines 90-97: await set_attributes({"agent": agent_name})
on_enter_set_attributes ==
  /\ pc = "on_enter"
  /\ pc' = "merge"
  /\ attributes' = EnterAttributes
  /\ UNCHANGED <<_current_session, current_agent, prev_agent, next_agent,
                 result, chat_ctx, nextId, greeted, streamVars, truncVars>>

\* the merge with the carried items put in front of the agent's own
MergeCarriedInFront(base, carried) ==
  LET existing_ids == {base[i].id : i \in DOMAIN base}
      NotExisting(item) == item.id \notin existing_ids
  IN SelectSeq(carried, NotExisting) \o base

\* the merge without the test on existing_ids
MergeCarriedUnfiltered(base, carried) == base \o carried

\* lines 105-107: the carried items whose id base does not hold are appended
\* to base, in their order
MergeCarried(base, carried) ==
  LET existing_ids == {base[i].id : i \in DOMAIN base}
      NotExisting(item) == item.id \notin existing_ids
  IN base \o SelectSeq(carried, NotExisting)

\* lines 101-104: what on_enter takes over from userdata.prev_agent
CarriedItems(prev) ==
  IF prev = "None" THEN <<>>
  ELSE _truncate_chat_ctx(chat_ctx[prev], DefaultKeepLastN, FALSE, TRUE)

\* lines 109-111: the announcement
Announcement(self, id) ==
  ChatItem(id, "system", TextContent(<<"You are the", AgentName(self), summarize>>))

\* the announcement added before the carried items are merged
EnteredChatCtxAnnounceFirst(self) ==
  MergeCarried(Append(chat_ctx[self], Announcement(self, nextId)),
               CarriedItems(prev_agent))

\* a chat context built from nothing in place of the copy of line 99
EnteredChatCtxFromEmpty(self) ==
  Append(MergeCarried(<<>>, CarriedItems(prev_agent)),
         Announcement(self, nextId))

\* lines 99-111: the chat context on_enter hands to update_chat_ctx
EnteredChatCtx(self) ==
  Append(MergeCarried(chat_ctx[self], CarriedItems(prev_agent)),
         Announcement(self, nextId))

\* lines 99-113, from the copy to the store made by update_chat_ctx: no await
\* lies between them; update_chat_ctx stores the items it is given and then
\* awaits the realtime session.  self is the agent just made current.
on_enter_update_chat_ctx ==
  /\ pc = "merge"
  /\ nextId <= MaxItems
  /\ pc' = "greet"
  /\ chat_ctx' = [chat_ctx EXCEPT ![current_agent] = EnteredChatCtx(current_agent)]
  /\ nextId' = nextId + 1
  /\ UNCHANGED <<_current_session, current_agent, prev_agent, next_agent,
                 result, attributes, greeted, streamVars, truncVars>>

\* lines 114-116: await session.generate_reply(...), the greeting
on_enter_generate_reply ==
  /\ pc = "greet"
  /\ pc' = "idle"
  /\ greeted' = [greeted EXCEPT ![current_agent] = @ + 1]
  /\ UNCHANGED <<_current_session, current_agent, prev_agent, next_agent,
                 result, chat_ctx, attributes, nextId, streamVars, truncVars>>

\* ------------------------------------------------------------ conversation
\* the kinds of item the conversation adds here: one message role and one
\* function item type (the code treats user and assistant messages alike, and
\* function_call and function_call_output alike)
ConversationKinds == {"user", "function_call"}

\* the session records a turn of the conversation in the current agent's
\* chat context
add_item(kind) ==
  /\ pc = "idle"
  /\ nextId <= MaxItems
  /\ chat_ctx' = [chat_ctx EXCEPT ![current_agent] =
                    Append(@, ChatItem(nextId, kind, TextContent(<<>>)))]
  /\ nextId' = nextId + 1
  /\ UNCHANGED <<pc, _current_session, current_agent, prev_agent, next_agent,
                 result, attributes, greeted, streamVars, truncVars>>

\* ------------------------------------------------------------ _transfer_to_agent
\* line 161 raises KeyError for a name that is no key, before line 162 runs
TransferRaises(name) == name \notin personas

\* lines 161 and 162 swapped: prev_agent is assigned before the lookup
TransferPrevAgentBeforeLookup(name) == current_agent

\* prev_agent assigned only while it is None
TransferPrevAgentOnlyFirst(name) ==
  IF TransferRaises(name) \/ prev_agent /= "None" THEN prev_agent ELSE current_agent

\* line 162: userdata.prev_agent after the call
TransferPrevAgent(name) ==
  IF TransferRaises(name) THEN prev_agent ELSE current_agent

\* `return current_agent` in place of `return next_agent`
TransferReturnsCurrent(name) ==
  IF TransferRaises(name) THEN next_agent ELSE current_agent

\* line 164: the returned agent, kept until the session activates it
TransferNextAgent(name) ==
  IF TransferRaises(name) THEN next_agent ELSE name

_transfer_to_agent(name) ==
  /\ prev_agent' = TransferPrevAgent(name)
  /\ next_agent' = TransferNextAgent(name)
  /\ result' = IF TransferRaises(name) THEN "KeyError" ELSE name
  /\ pc' = IF TransferRaises(name) THEN "idle" ELSE "returned"
  /\ UNCHANGED <<_current_session, current_agent, chat_ctx, attributes,
                 nextId, greeted, streamVars,
                 truncVars>>

\* the model asks for a tool: the current agent's class has it or not
tool_call(tool) ==
  /\ pc = "idle"
  /\ IF tool \notin DOMAIN ToolTable(current_agent)
       THEN /\ result' = "unknown_tool"
            /\ UNCHANGED <<pc, _current_session, current_agent, prev_agent,
                           next_agent, chat_ctx, attributes, nextId,
                           greeted, streamVars, truncVars>>
     ELSE IF ToolAwaitsReply(current_agent, tool)
       THEN /\ pc' = "tool_reply"
            /\ UNCHANGED <<_current_session, current_agent, prev_agent,
                           next_agent, result, chat_ctx, attributes, nextId,
                           greeted, streamVars, truncVars>>
     ELSE _transfer_to_agent(ToolTable(current_agent)[tool])

\* BillingAgent.transfer_to_support after its generate_reply() returned
tool_reply_done ==
  /\ pc = "tool_reply"
  /\ _transfer_to_agent("support")

\* _transfer_to_agent called with a name that is not registered
transfer_unregistered(name) ==
  /\ pc = "idle"
  /\ _transfer_to_agent(name)

\* the session activates the agent the tool returned and schedules its on_enter
activate_next_agent ==
  /\ pc = "returned"
  /\ pc' = "on_enter"
  /\ current_agent' = next_agent
  /\ next_agent' = "None"
  /\ UNCHANGED <<_current_session, prev_agent, result, chat_ctx, attributes,
                 nextId, greeted, streamVars,
                 truncVars>>

\* ------------------------------------------------------------ image ingestion
\* line 37 left out: the task is not put on the list
TasksWithoutNew(s) == _image_tasks

\* line 37: _image_tasks.append(task)
TasksAfterCreate(s) == Append(_image_tasks, s)

\* create_image_handler.fn: the transport calls it for a new stream, once the
\* handler is registered; lines 36-38 run without an await: the task is
\* created, put on the pending list and given its done callback
fn(s) ==
  /\ pc /= "entrypoint"
  /\ status[s] = "unopened"
  /\ status' = [status EXCEPT ![s] = "reading"]
  /\ _image_tasks' = TasksAfterCreate(s)
  /\ UNCHANGED <<sessionVars, image_bytes, target, callbacks_run,
                 remove_error, truncVars>>

\* line 50: image_bytes += chunk
ReadBytes(s, chunk) == image_bytes[s] \o chunk

\* lines 49-50: one round of `async for chunk in reader`
read_chunk(s) ==
  /\ status[s] = "reading"
  /\ Len(image_bytes[s]) < NumChunks
  /\ image_bytes' = [image_bytes EXCEPT
                       ![s] = ReadBytes(s, Chunk(s, Len(image_bytes[s]) + 1))]
  /\ UNCHANGED <<sessionVars, status, target, _image_tasks, callbacks_run,
                 remove_error, truncVars>>

\* the append moved behind the try statement: it runs after the except
\* clause too, with the bytes read so far
ChatCtxStoredAfterError(s) ==
  IF _current_session /= "None" /\ current_agent /= "None"
    THEN [chat_ctx EXCEPT ![current_agent] =
            Append(@, ChatItem(nextId, "user", ImageContent(image_bytes[s])))]
    ELSE chat_ctx

\* lines 66-67: the except clause logs the error and stores nothing
ChatCtxAfterError(s) == chat_ctx

\* lines 49, 66-67: the reader raises; the exception is caught and logged and
\* the task ends
read_error(s) ==
  /\ status[s] = "reading"
  /\ status' = [status EXCEPT ![s] = "failed"]
  /\ chat_ctx' = ChatCtxAfterError(s)
  /\ UNCHANGED <<pc, _current_session, current_agent, prev_agent, next_agent,
                 result, attributes, nextId, greeted, image_bytes, target,
                 _image_tasks, callbacks_run, remove_error, truncVars>>

\* line 54: is there a session with a current agent
HasCurrentAgent == _current_session /= "None" /\ current_agent /= "None"

\* userdata.prev_agent taken in place of the session's current agent
ImageTargetPrevAgent(s) ==
  IF ~HasCurrentAgent THEN "None"
  ELSE IF prev_agent = "None" THEN current_agent
  ELSE prev_agent

\* the entry agent taken when the session has no current agent
ImageTargetOrTriage(s) ==
  IF HasCurrentAgent THEN current_agent ELSE "triage"

\* lines 54-55, 64: the agent whose chat context receives the image, read
\* from the session when the stream has ended; "None" when line 54 fails
ImageTarget(s) ==
  IF HasCurrentAgent THEN current_agent ELSE "None"

\* a fresh chat context in place of the copy of the agent's
ImageChatCtxFresh(s) ==
  <<ChatItem(nextId, "user", ImageContent(image_bytes[s]))>>

\* lines 55-63: the copy of the agent's chat context plus the image
ImageChatCtx(s) ==
  Append(chat_ctx[ImageTarget(s)],
         ChatItem(nextId, "user", ImageContent(image_bytes[s])))

\* lines 49-64: the stream ends; with a current agent its chat context is
\* copied, extended and stored by update_chat_ctx, which then awaits the
\* realtime session; without one nothing is stored and the task ends
end_of_stream(s) ==
  /\ status[s] = "reading"
  /\ Len(image_bytes[s]) = NumChunks
  /\ IF ImageTarget(s) /= "None"
       THEN /\ nextId <= MaxItems
            /\ chat_ctx' = [chat_ctx EXCEPT ![ImageTarget(s)] = ImageChatCtx(s)]
            /\ nextId' = nextId + 1
            /\ target' = [target EXCEPT ![s] = ImageTarget(s)]
            /\ status' = [status EXCEPT ![s] = "updating"]
       ELSE /\ status' = [status EXCEPT ![s] = "done"]
            /\ UNCHANGED <<chat_ctx, nextId, target>>
  /\ UNCHANGED <<pc, _current_session, current_agent, prev_agent, next_agent,
                 result, attributes, greeted, image_bytes, _image_tasks,
                 callbacks_run, remove_error, truncVars>>

\* lines 64-65: update_chat_ctx returns and the task ends
update_done(s) ==
  /\ status[s] = "updating"
  /\ status' = [status EXCEPT ![s] = "done"]
  /\ UNCHANGED <<sessionVars, image_bytes, target, _image_tasks,
                 callbacks_run, remove_error, truncVars>>

InList(list, x) == \E i \in DOMAIN list : list[i] = x

\* line 38: the done callback of a task that ended runs once;
\* _image_tasks.remove(t) raises ValueError when t is not in the list
done_callback(s) ==
  /\ status[s] \in {"done", "failed"}
  /\ s \notin callbacks_run
  /\ callbacks_run' = callbacks_run \cup {s}
  /\ IF InList(_image_tasks, s)
       THEN /\ _image_tasks' = Remove(_image_tasks, s)
            /\ UNCHANGED remove_error
       ELSE /\ remove_error' = TRUE
            /\ UNCHANGED _image_tasks
  /\ UNCHANGED <<sessionVars, status, image_bytes, target, truncVars>>

\* ------------------------------------------------------------ the session
Next ==
  \/ entrypoint
  \/ session_start
  \/ on_enter_set_attributes
  \/ on_enter_update_chat_ctx
  \/ on_enter_generate_reply
  \/ \E kind \in ConversationKinds : add_item(kind)
  \/ \E tool \in ToolNames : tool_call(tool)
  \/ tool_reply_done
  \/ \E name \in UnregisteredNames : transfer_unregistered(name)
  \/ activate_next_agent
  \/ \E s \in Streams : fn(s)
  \/ \E s \in Streams : read_chunk(s)
  \/ \E s \in Streams : read_error(s)
  \/ \E s \in Streams : end_of_stream(s)
  \/ \E s \in Streams : update_done(s)
  \/ \E s \in Streams : done_callback(s)

Spec == Init /\ [][Next]_vars

\* the event loop runs every callback that is ready: a task whose await
\* returned goes on, a done callback that was scheduled runs; and every
\* stream that was opened delivers its next chunk, ends or fails
FairSpec ==
  /\ Spec
  /\ \A s \in Streams :
       /\ WF_vars(read_chunk(s) \/ read_error(s) \/ end_of_stream(s))
       /\ WF_vars(update_done(s))
       /\ WF_vars(done_callback(s))

\* ------------------------------------------------------------ properties of the session
Ids(history) == {history[i].id : i \in DOMAIN history}

\* the step of on_enter that stores the merged chat context
IsEnterStore == pc = "merge" /\ pc' = "greet"

\* position of the item with the given id in a sequence without duplicates
PositionOf(seq, id) == CHOOSE i \in DOMAIN seq : seq[i].id = id

\* C5: the merge on entry keeps every item of the entering agent's history in
\* its order and appends after them exactly the carried items whose id the
\* history does not hold, in the order they have in the carried sequence
\* (the announcement follows them).
C5_MergeKeepsBaseAppendsNewCarried ==
  [][IsEnterStore =>
       LET base == chat_ctx[current_agent]
           after == chat_ctx'[current_agent]
           carried == CarriedItems(prev_agent)
           appended == SubSeq(after, Len(base) + 1, Len(after) - 1)
           fresh == {i \in DOMAIN carried : carried[i].id \notin Ids(base)}
       IN /\ Len(after) >= Len(base) + 1
          /\ SubSeq(after, 1, Len(base)) = base
          /\ Len(appended) = Cardinality(fresh)
          /\ \A i \in fresh : \E j \in DOMAIN appended : appended[j] = carried[i]
          /\ \A j \in DOMAIN appended :
               \E i \in fresh : appended[j] = carried[i]
          /\ \A j, k \in DOMAIN appended :
               j < k => PositionOf(carried, appended[j].id)
                          < PositionOf(carried, appended[k].id)
     ]_vars

\* C5 witness: an entry was stored whose history is an item the agent already
\* had, then an item carried from the previous agent, then the announcement
C5_Witness ==
  /\ pc = "greet"
  /\ prev_agent /= "None"
  /\ Len(chat_ctx[current_agent]) >= 3
  /\ IsSystemMessage(chat_ctx[current_agent][1])
  /\ ~IsSystemMessage(chat_ctx[current_agent][2])
  /\ chat_ctx[current_agent][2].id \in Ids(chat_ctx[prev_agent])
  /\ chat_ctx[current_agent][1].id \notin Ids(chat_ctx[prev_agent])

\* C6: in every reachable state no agent's history holds two items with the
\* same id.
C6_NoDuplicateIds ==
  \A p \in personas :
    \A i, j \in DOMAIN chat_ctx[p] :
      chat_ctx[p][i].id = chat_ctx[p][j].id => i = j

\* C6 witness: an agent was entered again (triage, support, triage) and the
\* agent it was entered from holds an item that came from it
C6_Witness ==
  /\ pc = "greet"
  /\ current_agent = "triage"
  /\ prev_agent = "support"
  /\ \E i \in DOMAIN chat_ctx["support"] :
       /\ ~IsSystemMessage(chat_ctx["support"][i])
       /\ chat_ctx["support"][i].id \in Ids(chat_ctx["triage"])
  /\ Cardinality({i \in DOMAIN chat_ctx["triage"] :
                    IsSystemMessage(chat_ctx["triage"][i])}) >= 2

\* C7: a transfer to a name that is no key of userdata.personas fails with an
\* error and leaves the session as it was: the current agent, prev_agent and
\* every history are unchanged.
C7_UnregisteredTransferFails ==
  [][(\E name \in UnregisteredNames : transfer_unregistered(name)) =>
       /\ result' = "KeyError"
       /\ current_agent' = current_agent
       /\ prev_agent' = prev_agent
       /\ next_agent' = next_agent
       /\ chat_ctx' = chat_ctx
       /\ pc' = pc
     ]_vars

\* C7 witness: a transfer failed after a handoff, when prev_agent was set and
\* was not the current agent
C7_Witness ==
  /\ result = "KeyError"
  /\ pc = "idle"
  /\ prev_agent \in personas
  /\ prev_agent /= current_agent

\* the persona a transfer tool names
TargetOfTool(tool) ==
  CASE tool = "transfer_to_triage" -> "triage"
    [] tool = "transfer_to_support" -> "support"
    [] tool = "transfer_to_billing" -> "billing"

\* C8: a transfer to a registered name T requested while P is current
\* returns the agent registered as T and ends with that agent current and
\* prev_agent = P.
C8_RegisteredTransfer ==
  [][/\ \A tool \in ToolNames :
          (tool_call(tool) /\ pc' = "returned") =>
            /\ next_agent' = TargetOfTool(tool)
            /\ result' = TargetOfTool(tool)
            /\ prev_agent' = current_agent
     /\ tool_reply_done =>
          /\ next_agent' = "support"
          /\ prev_agent' = current_agent
     /\ (pc = "returned" /\ pc' /= "returned") =>
          /\ current_agent' = next_agent
          /\ current_agent' = result
          /\ prev_agent' = current_agent
     ]_vars

\* C8 witness: a handoff from one agent to another has been activated
C8_Witness ==
  /\ pc = "on_enter"
  /\ prev_agent \in personas
  /\ current_agent \in personas
  /\ current_agent /= prev_agent
  /\ current_agent = result

\* a transfer is partly applied: prev_agent is set and the returned agent is
\* not current yet, or the returned agent is current and its history has not
\* received the carried items and the announcement yet
TransferPartlyApplied ==
  \/ pc = "returned"
  \/ pc \in {"on_enter", "merge"} /\ prev_agent /= "None"

\* C9: a transfer is atomic for the ingestion units: no unit appends its image
\* at a point where the transfer is partly applied.
C9_TransferAtomic ==
  [][(\E s \in Streams : end_of_stream(s)) => ~TransferPartlyApplied]_vars

\* base64 decoding: four sextets become up to three bytes
RECURSIVE b64decode(_)
b64decode(chars) ==
  IF Len(chars) < 4 THEN <<>>
  ELSE LET a == chars[1]
           b == chars[2]
           c == chars[3]
           d == chars[4]
           group == IF c = Pad THEN <<a * 4 + b \div 16>>
                    ELSE IF d = Pad
                      THEN <<a * 4 + b \div 16, (b % 16) * 16 + c \div 4>>
                    ELSE <<a * 4 + b \div 16, (b % 16) * 16 + c \div 4,
                           (c % 4) * 64 + d>>
       IN group \o b64decode(SubSeq(chars, 5, Len(chars)))

\* the chunks c..NumChunks of a stream, concatenated in arrival order
RECURSIVE ChunksFrom(_, _)
ChunksFrom(s, c) ==
  IF c > NumChunks THEN <<>> ELSE Chunk(s, c) \o ChunksFrom(s, c + 1)

IsImageItem(item) ==
  /\ Len(item.content) = 1
  /\ item.content[1].type = "image"

\* both streams were read to the end and stored in the same agent's history
BothStored(p) == \A s \in Streams : status[s] = "done" /\ target[s] = p

\* C10: when two streams opened concurrently were both read to the end
\* without error and stored for the same agent, that agent's history holds
\* exactly 2 image items, both user messages, one per stream, each holding
\* all the bytes of its own stream in arrival order and nothing else.
C10_TwoStreamsTwoImages ==
  \A p \in personas :
    BothStored(p) =>
      LET images == {i \in DOMAIN chat_ctx[p] : IsImageItem(chat_ctx[p][i])}
      IN /\ Cardinality(images) = 2
         /\ \A i \in images :
              /\ chat_ctx[p][i].type = "message"
              /\ chat_ctx[p][i].role = "user"
         /\ \A s \in Streams :
              Cardinality({i \in images :
                 b64decode(chat_ctx[p][i].content[1].image) = ChunksFrom(s, 1)}) = 1

\* C10 witness: no handoff took place, both streams were read to the end and
\* stored for the current agent, and they overlapped: stream 1 was opened
\* first, stream 2 was stored first, and neither task has left the list
C10_Witness ==
  /\ BothStored(current_agent)
  /\ pc = "idle"
  /\ prev_agent = "None"
  /\ _image_tasks = <<1, 2>>
  /\ \E i, j \in DOMAIN chat_ctx[current_agent] :
       /\ i < j
       /\ IsImageItem(chat_ctx[current_agent][i])
       /\ IsImageItem(chat_ctx[current_agent][j])
       /\ b64decode(chat_ctx[current_agent][i].content[1].image) = ChunksFrom(2, 1)
       /\ b64decode(chat_ctx[current_agent][j].content[1].image) = ChunksFrom(1, 1)

\* the stream a byte belongs to (Chunk(s, c) is 16 * s + c)
StreamOfByte(b) == b \div 16

\* no history holds an image made of bytes of stream s
NoImageFrom(s) ==
  \A p \in personas : \A i \in DOMAIN chat_ctx[p] :
    IsImageItem(chat_ctx[p][i]) =>
      LET bytes == b64decode(chat_ctx[p][i].content[1].image)
      IN \A k \in DOMAIN bytes : StreamOfByte(bytes[k]) /= s

Announcements(p) ==
  Cardinality({i \in DOMAIN chat_ctx[p] : IsSystemMessage(chat_ctx[p][i])})

\* C12: the agent that receives an image is the one current when the append
\* runs: the step that stores the image of a stream extends the history of
\* the current agent by that image and leaves every other history as it was,
\* whoever was current when the stream was opened.
C12_TargetResolvedAtAppend ==
  [][\A s \in Streams :
       (status[s] = "reading" /\ status'[s] = "updating") =>
         LET before == chat_ctx[current_agent]
             after == chat_ctx'[current_agent]
         IN /\ target'[s] = current_agent
            /\ current_agent' = current_agent
            /\ Len(after) = Len(before) + 1
            /\ SubSeq(after, 1, Len(before)) = before
            /\ IsImageItem(after[Len(after)])
            /\ b64decode(after[Len(after)].content[1].image) = image_bytes[s]
            /\ \A p \in personas \ {current_agent} : chat_ctx'[p] = chat_ctx[p]
    ]_vars

\* C12 witness: triage was entered once, support once and billing never, so
\* the one handoff was triage -> support; stream 2 was stored for triage,
\* hence before the handoff; stream 1 is ahead of stream 2 on the list, so it
\* was opened before stream 2 was, under triage or before; and its image is
\* in support's history and not in triage's
C12_Witness ==
  /\ current_agent = "support"
  /\ prev_agent = "triage"
  /\ Announcements("triage") = 1
  /\ Announcements("support") <= 1
  /\ chat_ctx["billing"] = <<>>
  /\ _image_tasks = <<1, 2>>
  /\ target[2] = "triage"
  /\ target[1] = "support"
  /\ \E i \in DOMAIN chat_ctx["support"] :
       /\ IsImageItem(chat_ctx["support"][i])
       /\ b64decode(chat_ctx["support"][i].content[1].image) = ChunksFrom(1, 1)
  /\ \A i \in DOMAIN chat_ctx["triage"] :
       IsImageItem(chat_ctx["triage"][i]) =>
         b64decode(chat_ctx["triage"][i].content[1].image) /= ChunksFrom(1, 1)

\* the personas each persona may hand over to
CapabilitySet(p) ==
  CASE p = "triage" -> {"support", "billing"}
    [] p = "support" -> {"triage", "billing"}
    [] p = "billing" -> {"triage", "support"}

\* C13: a persona can request a transfer only to a name in its capability
\* set: a request from the current agent for the transfer to a registered
\* persona outside its set is rejected and changes neither the current agent
\* nor prev_agent, and every agent a tool returns is in the set of the agent
\* that was asked.
C13_TransferWithinCapabilitySet ==
  [][/\ \A tool \in ToolNames :
          (tool_call(tool) /\ TargetOfTool(tool) \notin CapabilitySet(current_agent)) =>
            /\ result' = "unknown_tool"
            /\ current_agent' = current_agent
            /\ prev_agent' = prev_agent
            /\ next_agent' = next_agent
            /\ pc' = pc
            /\ chat_ctx' = chat_ctx
     /\ (next_agent' /= next_agent /\ next_agent' /= "None") =>
          next_agent' \in CapabilitySet(current_agent)
    ]_vars

\* C13 witness: after a handoff the current agent was asked for the transfer
\* to itself and the request was rejected
C13_Witness ==
  /\ result = "unknown_tool"
  /\ pc = "idle"
  /\ prev_agent \in personas
  /\ current_agent /= prev_agent

\* the number of system messages among items
SystemCount(items) ==
  Cardinality({i \in DOMAIN items : IsSystemMessage(items[i])})

\* C15: every entry of an agent appends exactly one system announcement to
\* the entering agent's chat context, after all the carried items, and the
\* greeting is requested only after the merged chat context with that
\* announcement has been stored.
C15_OneAnnouncementThenGreeting ==
  /\ [][/\ IsEnterStore =>
             LET before == chat_ctx[current_agent]
                 after == chat_ctx'[current_agent]
             IN /\ Len(after) > Len(before)
                /\ after[Len(after)] = Announcement(current_agent, nextId)
                /\ nextId \notin Ids(before)
                /\ SystemCount(after) = SystemCount(before) + 1
                /\ \A i \in (Len(before) + 1)..(Len(after) - 1) :
                     /\ ~IsSystemMessage(after[i])
                     /\ prev_agent /= "None"
                     /\ \E j \in DOMAIN chat_ctx[prev_agent] :
                          chat_ctx[prev_agent][j] = after[i]
                /\ greeted' = greeted
        /\ (\E p \in personas : SystemCount(chat_ctx'[p]) /= SystemCount(chat_ctx[p]))
             => IsEnterStore
        /\ greeted' /= greeted =>
             /\ pc = "greet"
             /\ chat_ctx' = chat_ctx
             /\ greeted' = [greeted EXCEPT ![current_agent] = @ + 1]
             /\ greeted'[current_agent] = SystemCount(chat_ctx[current_agent])
     ]_vars
  /\ [](\A p \in personas : greeted[p] <= SystemCount(chat_ctx[p]))

\* C15 witness: an agent entered after a handoff holds a carried item with its
\* announcement behind it and has been greeted once
C15_Witness ==
  /\ pc = "idle"
  /\ prev_agent \in personas
  /\ greeted[current_agent] = 1
  /\ LET items == chat_ctx[current_agent]
     IN /\ Len(items) = 2
        /\ items[1].type = "message" /\ items[1].role = "user"
        /\ \E j \in DOMAIN chat_ctx[prev_agent] : chat_ctx[prev_agent][j] = items[1]
        /\ IsSystemMessage(items[2])

\* the positions of on_enter behind the await of set_attributes, and the
\* positions of an agent that has entered
AttributesWritten == {"merge", "greet", "idle", "tool_reply", "returned"}

\* C16: once on_enter has passed set_attributes the 'agent' attribute names
\* the current agent; every entry writes it, and writes it before the chat
\* contexts are merged and before the greeting.
C16_AttributeNamesCurrentAgent ==
  /\ [](pc \in AttributesWritten => attributes = AgentName(current_agent))
  /\ [][(pc = "on_enter" /\ pc' /= "on_enter") =>
          /\ pc' = "merge"
          /\ attributes' = AgentName(current_agent)
          /\ current_agent' = current_agent
          /\ chat_ctx' = chat_ctx
          /\ greeted' = greeted
     ]_vars
  /\ [][(IsEnterStore \/ greeted' /= greeted) =>
          attributes = AgentName(current_agent) /\ attributes' = attributes]_vars

\* C16 witness: the second handoff has completed and the attribute names the
\* third agent
C16_Witness ==
  /\ pc = "idle"
  /\ current_agent = "billing"
  /\ prev_agent = "support"
  /\ attributes = AgentName("billing")
  /\ greeted["billing"] = 1

\* items is the beginning of longer
IsPrefix(items, longer) ==
  /\ Len(items) <= Len(longer)
  /\ SubSeq(longer, 1, Len(items)) = items

\* C17: the chat context of each agent only grows: whatever on_enter and the
\* image tasks do, and in whatever order, every step leaves each agent's
\* items in place and at most adds items behind them.
C17_ChatCtxOnlyGrows ==
  [][\A p \in personas : IsPrefix(chat_ctx[p], chat_ctx'[p])]_vars

\* C17 witness: an image was stored for support between the await of
\* set_attributes and the store of its first on_enter, and is still there in
\* front of the announcement
C17_Witness ==
  /\ current_agent = "support"
  /\ SystemCount(chat_ctx["support"]) = 1
  /\ Len(chat_ctx["support"]) >= 2
  /\ IsImageItem(chat_ctx["support"][1])
  /\ IsSystemMessage(chat_ctx["support"][Len(chat_ctx["support"])])
  /\ \E s \in Streams : target[s] = "support"

\* C18: on every entry that reads prev_agent, prev_agent is the agent that
\* was current just before the entry (it is assigned by the transfer and
\* stays as it is up to the store of on_enter); on the first entry, of
\* triage, prev_agent is None and nothing is carried; prev_agent is never set
\* back to None.
C18_PrevAgentIsPrecedingAgent ==
  [][/\ (current_agent' /= current_agent /\ current_agent /= "None") =>
          /\ prev_agent = current_agent
          /\ prev_agent' = prev_agent
          /\ pc' = "on_enter"
     /\ (current_agent' /= current_agent /\ current_agent = "None") =>
          /\ current_agent' = "triage"
          /\ prev_agent' = "None"
          /\ pc' = "on_enter"
     /\ pc \in {"on_enter", "merge"} =>
          prev_agent' = prev_agent /\ current_agent' = current_agent
     /\ (IsEnterStore /\ prev_agent = "None") =>
          chat_ctx'[current_agent] =
            Append(chat_ctx[current_agent], Announcement(current_agent, nextId))
     /\ (IsEnterStore /\ prev_agent /= "None") =>
          (Ids(chat_ctx'[current_agent]) \ (Ids(chat_ctx[current_agent]) \cup {nextId}))
            \subseteq Ids(chat_ctx[prev_agent])
     /\ prev_agent /= "None" => prev_agent' /= "None"
    ]_vars

\* C18 witness: after the second handoff billing holds an item carried from
\* support, the agent before it, while triage, entered first, began with its
\* announcement
C18_Witness ==
  /\ current_agent = "billing"
  /\ prev_agent = "support"
  /\ pc = "greet"
  /\ IsSystemMessage(chat_ctx["triage"][1])
  /\ \E i \in DOMAIN chat_ctx["billing"] :
       /\ ~IsSystemMessage(chat_ctx["billing"][i])
       /\ chat_ctx["billing"][i].id \in Ids(chat_ctx["support"])
       /\ chat_ctx["billing"][i].id \notin Ids(chat_ctx["triage"])

\* how often x is in list
Occurrences(list, x) == Cardinality({i \in DOMAIN list : list[i] = x})

\* C19: the done callback never removes a task that is not on the list: the
\* task is on the list from the step that creates it, at most once, it is
\* still there when its callback runs, and only that callback, which runs
\* once, takes it off.
C19_CallbackFindsItsTask ==
  /\ [](/\ ~remove_error
        /\ \A s \in Streams :
             /\ Occurrences(_image_tasks, s) <= 1
             /\ status[s] = "unopened" => ~InList(_image_tasks, s) /\ s \notin callbacks_run
             /\ (status[s] /= "unopened" /\ s \notin callbacks_run) => InList(_image_tasks, s)
             /\ s \in callbacks_run => ~InList(_image_tasks, s))
  /\ [][\A s \in Streams :
          /\ (status[s] = "unopened" /\ status'[s] /= "unopened") =>
               InList(_image_tasks', s)
          /\ (InList(_image_tasks, s) /\ ~InList(_image_tasks', s)) =>
               s \notin callbacks_run /\ s \in callbacks_run'
          /\ s \in callbacks_run => s \in callbacks_run'
     ]_vars

\* C19 witness: the callback of the task created first has run and taken it
\* off the list while the second task is still on it
C19_Witness ==
  /\ callbacks_run = {1}
  /\ _image_tasks = <<2>>
  /\ status[2] = "reading"
  /\ ~remove_error

\* C20: a stream read to its end while the session has no current agent is
\* dropped: nothing is added to any chat context, no error shows up in the
\* main flow, the task ends, and its callback takes it off the list.
C20_DroppedWithoutCurrentAgent ==
  /\ [][\A s \in Streams :
          /\ (status[s] = "reading" /\ status'[s] \in {"updating", "done"} /\ ~HasCurrentAgent) =>
               /\ status'[s] = "done"
               /\ chat_ctx' = chat_ctx
               /\ nextId' = nextId
               /\ pc' = pc
               /\ result' = result
               /\ current_agent' = current_agent
               /\ target'[s] = "None"
               /\ InList(_image_tasks', s)
               /\ s \notin callbacks_run'
          /\ (status[s] = "reading" /\ status'[s] = "done") => ~HasCurrentAgent
     ]_vars
  /\ [](\A s \in Streams :
          (status[s] = "done" /\ target[s] = "None") =>
            /\ NoImageFrom(s)
            /\ s \in callbacks_run => ~InList(_image_tasks, s)
            /\ ~remove_error)

\* C20 witness: a stream was read to its end before the session had a
\* current agent, its task ended and left the list, and the session went on
\* to enter triage
C20_Witness ==
  \E s \in Streams :
    /\ status[s] = "done"
    /\ target[s] = "None"
    /\ image_bytes[s] = ChunksFrom(s, 1)
    /\ s \in callbacks_run
    /\ ~InList(_image_tasks, s)
    /\ current_agent = "triage"
    /\ pc = "idle"

\* a task has ended: its coroutine returned, after the store or after the
\* except clause
Ended(s) == status[s] \in {"done", "failed"}

History(kinds) ==
  [i \in DOMAIN kinds |-> ChatItem(i, kinds[i], TextContent(<<>>))]

\* the history of the documented example
ScenarioHistory ==
  History(<<"system", "user", "assistant", "function_call",
            "function_call_output", "user">>)

\* all histories of at most MaxLen items, and the example
Histories ==
  {History(kinds) : kinds \in UNION {[1..k -> Kinds] : k \in 0..MaxLen}}
    \cup {ScenarioHistory}

TruncInit ==
  /\ SessionInit
  /\ arg_items \in Histories
  /\ arg_keep_last_n \in 0..MaxKeep
  /\ arg_keep_system \in BOOLEAN
  /\ arg_keep_function \in BOOLEAN
  /\ ret_items = <<>>
  /\ tpc = "call"

\* one call of _truncate_chat_ctx
truncate_call ==
  /\ tpc = "call"
  /\ ret_items' = _truncate_chat_ctx(arg_items, arg_keep_last_n,
                                     arg_keep_system, arg_keep_function)
  /\ tpc' = "return"
  /\ UNCHANGED <<sessionVars, streamVars, arg_items, arg_keep_last_n,
                 arg_keep_system, arg_keep_function>>

TruncNext == truncate_call

TruncSpec == TruncInit /\ [][TruncNext]_vars

\* ------------------------------------------------------------ properties of _truncate_chat_ctx
Returned == tpc = "return"

\* what the scan collected before the leading function items were popped
Collected ==
  ScanReversed(arg_items, Len(arg_items), <<>>, arg_keep_last_n,
               arg_keep_system, arg_keep_function)

\* C1: for every history and every keep_last_n_messages n >= 0, n = 0
\* included, and every combination of the two flags, _truncate_chat_ctx
\* returns at most n items.
C1_AtMostKeepLastN ==
  Returned => Len(ret_items) <= arg_keep_last_n

\* C2: the returned sequence is empty or its first item is no function_call
\* and no function_call_output: the whole leading run of function items is
\* removed.
C2_NoLeadingFunctionItem ==
  Returned => (ret_items = <<>> \/ ~IsFunctionItem(ret_items[1]))

\* C2 witness: a call that collected at least two leading function items and
\* returned what followed them
C2_Witness ==
  /\ Returned
  /\ ret_items /= <<>>
  /\ Len(Collected) >= Len(ret_items) + 2

\* C3: with keep_system_message false no system message is returned, and
\* with keep_function_call false no function_call and no
\* function_call_output is returned.
C3_ExcludedKindsAbsent ==
  Returned =>
    /\ ~arg_keep_system =>
         \A i \in DOMAIN ret_items : ~IsSystemMessage(ret_items[i])
    /\ ~arg_keep_function =>
         \A i \in DOMAIN ret_items : ~IsFunctionItem(ret_items[i])

\* C3 witness: both flags false, a history holding a system message, a
\* function_call and a function_call_output, and a non-empty result
C3_Witness ==
  /\ Returned
  /\ ~arg_keep_system /\ ~arg_keep_function
  /\ \E i \in DOMAIN arg_items : IsSystemMessage(arg_items[i])
  /\ \E i \in DOMAIN arg_items : arg_items[i].type = "function_call"
  /\ \E i \in DOMAIN arg_items : arg_items[i].type = "function_call_output"
  /\ ret_items /= <<>>

\* the reference: an item is valid unless its kind is excluded by a flag
ValidForRetention(item, keepSystemMessages, keepFunctionItems) ==
  /\ IsSystemMessage(item) => keepSystemMessages
  /\ IsFunctionItem(item) => keepFunctionItems

\* the last n items of a sequence, in its order
LastN(seq, n) ==
  IF n >= Len(seq) THEN seq ELSE SubSeq(seq, Len(seq) - n + 1, Len(seq))

\* a sequence without its leading run of function items
WithoutLeadingFunctionItems(seq) ==
  LET rest == {i \in DOMAIN seq : ~IsFunctionItem(seq[i])}
  IN IF rest = {} THEN <<>>
     ELSE SubSeq(seq, CHOOSE i \in rest : \A j \in rest : i <= j, Len(seq))

\* the last keepLastN valid items, chronological, leading function items dropped
ReferenceTruncate(H, keepLastN, keepSystemMessages, keepFunctionItems) ==
  LET Valid(item) == ValidForRetention(item, keepSystemMessages, keepFunctionItems)
  IN WithoutLeadingFunctionItems(LastN(SelectSeq(H, Valid), keepLastN))

\* C4: _truncate_chat_ctx returns what the reference returns: the last
\* keepLastN valid items of the history, in chronological order, without the
\* leading run of function items; for the example history with keepLastN = 3,
\* keepSystemMessages false and keepFunctionItems true that is [user:bye].
C4_EqualsReference ==
  Returned =>
    /\ ret_items = ReferenceTruncate(arg_items, arg_keep_last_n,
                                     arg_keep_system, arg_keep_function)
    /\ (/\ arg_items = ScenarioHistory
        /\ arg_keep_last_n = 3
        /\ ~arg_keep_system
        /\ arg_keep_function) => ret_items = <<ScenarioHistory[6]>>

\* where C1 and C4 do hold: every call with keep_last_n_messages >= 1
TruncateForPositiveN ==
  (Returned /\ arg_keep_last_n >= 1) =>
    /\ Len(ret_items) <= arg_keep_last_n
    /\ ret_items = ReferenceTruncate(arg_items, arg_keep_last_n,
                                     arg_keep_system, arg_keep_function)
    /\ (/\ arg_items = ScenarioHistory
        /\ arg_keep_last_n = 3
        /\ ~arg_keep_system
        /\ arg_keep_function) => ret_items = <<ScenarioHistory[6]>>

====
